---- MODULE Spec2Model ----
(***************************************************************************)
(* A model of BaseOutputTransport (pipecat/transports/base_output.py): the *)
(* event loop (process_frame, start, stop, the push task), the sink thread *)
(* and the camera thread, with the calls they make to the collaborators    *)
(* (push_frame, write_raw_audio_frames, write_frame_to_camera,             *)
(* send_message, send_metrics) recorded in `trace`.                        *)
(***************************************************************************)
EXTENDS Integers, Sequences, FiniteSets, TLC

\* ------------------------------------------------------------------ bounds
MaxFrames == 4            \* process_frame calls in one run
MaxStarts == 2            \* times start() spawns its threads
MaxInterruptions == 1     \* times _handle_interruptions replaces the push task
MaxAudioLen == 3          \* longest audio payload given to process_frame
MaxWriteFailures == 1     \* failing write_raw_audio_frames calls
MaxCamWrites == 4         \* write_frame_to_camera calls
MaxSprite == 2            \* images in a SpriteFrame
MaxRate == 2              \* audio_out_sample_rate is 100 .. 100 * MaxRate
MaxChannels == 2          \* audio_out_channels is 1 .. MaxChannels
MaxPayload == 9           \* longest payload given to the chunker alone
BargeChunks == 10         \* chunks enqueued in the barge-in scenario
BargeAfter == 2           \* chunks written before its StartInterruption

VARIABLES
    params,            \* self._params and interruptions_allowed
    running,           \* self._running
    stoppedEvent,      \* self._stopped_event
    isInterrupted,     \* self._is_interrupted
    sinkQueue,         \* self._sink_queue
    sink,              \* the _sink_thread_handler threads: pc, frame, buffer
    cam,               \* the _camera_out_thread_handler threads: pc, image
    nStarts,           \* thread sets spawned so far
    cameraQueue,       \* self._camera_out_queue
    cameraImages,      \* self._camera_images: itertools.cycle or None
    push_frame_task,   \* self._push_frame_task (a task id)
    push_queue,        \* self._push_queue (a queue id)
    tasks,             \* the _push_frame_task_handler tasks: pc, the queue awaited
    queues,            \* the asyncio.Queue objects made by _create_push_task
    received,          \* the frames given to process_frame, in order
    puts,              \* per push queue, the ids of the frames put on it
    nextByte,          \* audio bytes given to process_frame so far, plus one
    waiting,           \* process_frame calls blocked in _stopped_event.wait()
    returned,          \* Cancel/End process_frame calls that returned
    nFail,             \* failed write_raw_audio_frames calls so far
    trace              \* the calls made to the collaborators, in order

vars == <<params, running, stoppedEvent, isInterrupted, sinkQueue, sink, cam,
          nStarts, cameraQueue, cameraImages, push_frame_task, push_queue,
          tasks, queues, received, puts, nextByte, waiting, returned, nFail,
          trace>>

\* ------------------------------------------------------------- data model
Threads == 1..MaxStarts
TaskIds == 1..(MaxInterruptions + 1)

DOWNSTREAM == "DOWNSTREAM"

SystemKinds == {"Start", "Cancel", "StartInterruption", "StopInterruption", "System"}

Min(a, b) == IF a < b THEN a ELSE b

Frame(k, n) == [kind |-> k, id |-> n, audio |-> <<>>, images |-> <<>>]
NoFrame == Frame("None", 0)

AudioRawFrame(bytes, n) == [kind |-> "Audio", id |-> n, audio |-> bytes, images |-> <<>>]
SpriteFrame(imgs, n) == [kind |-> "Sprite", id |-> n, audio |-> <<>>, images |-> imgs]

\* An image: the frame it came in and its place in that frame (1 for an
\* ImageRawFrame, 1..len for the images of a SpriteFrame).
Image(n, k) == [id |-> n, index |-> k]
NoImage == Image(0, 0)

\* The id of the next frame given to process_frame.
nextId == Len(received) + 1

\* One call to a collaborator: by is the sink/camera thread or push task that
\* made it, 0 for process_frame itself.
Call(o, f, d, b, bytes, success) ==
    [op |-> o, id |-> f.id, kind |-> f.kind, dir |-> d, by |-> b,
     data |-> bytes, ok |-> success]

Params(audio, rate, channels, camera, live, interruptions) ==
    [audio_out_enabled |-> audio, audio_out_sample_rate |-> rate,
     audio_out_channels |-> channels, camera_out_enabled |-> camera,
     camera_out_is_live |-> live, interruptions_allowed |-> interruptions]

\* int(audio_out_sample_rate / 100) * audio_out_channels * 2
ChunkSize(p) == (p.audio_out_sample_rate \div 100) * p.audio_out_channels * 2

\* self._audio_chunk_size
audio_chunk_size == ChunkSize(params)

\* Python's range(start, stop, step), step > 0.
RECURSIVE Range(_, _, _)
Range(first, stop, step) ==
    IF first >= stop THEN <<>>
    ELSE <<first>> \o Range(first + step, stop, step)

\* Python's s[a:b] for 0 <= a <= b.
Slice(s, a, b) == SubSeq(s, a + 1, Min(b, Len(s)))

\* Mutant of AudioChunks: a last chunk shorter than size is dropped.
AudioChunks_DropsRemainder(audio, size) ==
    LET starts == Range(0, Len(audio) - (Len(audio) % size), size)
    IN  [k \in 1..Len(starts) |-> Slice(audio, starts[k], starts[k] + size)]

\* The payloads of the chunks _handle_audio puts on the sink queue.
AudioChunks(audio, size) ==
    LET starts == Range(0, Len(audio), size)
    IN  [k \in 1..Len(starts) |-> Slice(audio, starts[k], starts[k] + size)]

\* Mutant of _maybe_send_audio: the chunk written stays in the buffer.
_maybe_send_audio_KeepsWritten(buffer, size, written) ==
    [buffer |-> buffer, attempted |-> Len(buffer) >= size,
     offered |-> IF Len(buffer) >= size THEN Slice(buffer, 0, size) ELSE <<>>]

\* Mutant of _maybe_send_audio: the chunk is cut from the buffer before the
\* write, so a failed write loses it.
_maybe_send_audio_DropsFailed(buffer, size, written) ==
    IF Len(buffer) >= size
    THEN [buffer |-> Slice(buffer, size, Len(buffer)),
          attempted |-> TRUE, offered |-> Slice(buffer, 0, size)]
    ELSE [buffer |-> buffer, attempted |-> FALSE, offered |-> <<>>]

\* Mutant of _maybe_send_audio: the whole buffer is written at once.
_maybe_send_audio_WritesAll(buffer, size, written) ==
    IF Len(buffer) >= size
    THEN [buffer |-> IF written THEN <<>> ELSE buffer,
          attempted |-> TRUE, offered |-> buffer]
    ELSE [buffer |-> buffer, attempted |-> FALSE, offered |-> <<>>]

\* _maybe_send_audio: the buffer returned and the write attempted, written
\* telling whether write_raw_audio_frames returned or raised.
_maybe_send_audio(buffer, size, written) ==
    IF Len(buffer) >= size
    THEN [buffer |-> IF written THEN Slice(buffer, size, Len(buffer)) ELSE buffer,
          attempted |-> TRUE, offered |-> Slice(buffer, 0, size)]
    ELSE [buffer |-> buffer, attempted |-> FALSE, offered |-> <<>>]

\* ------------------------------------------------------------ construction
InitParams(p) ==
    /\ params = p
    /\ running = FALSE
    /\ stoppedEvent = FALSE
    /\ isInterrupted = FALSE
    /\ sinkQueue = <<>>
    /\ sink = [t \in Threads |-> [pc |-> "idle", frame |-> NoFrame, buffer |-> <<>>]]
    /\ cam = [t \in Threads |-> [pc |-> "idle", image |-> NoImage]]
    /\ nStarts = 0
    /\ cameraQueue = <<>>
    /\ cameraImages = [set |-> FALSE, images |-> <<>>, next |-> 1]
    /\ push_frame_task = 1
    /\ push_queue = 1
    /\ tasks = [g \in TaskIds |-> [pc |-> IF g = 1 THEN "ready" ELSE "none", q |-> 0]]
    /\ queues = [g \in TaskIds |-> <<>>]
    /\ received = <<>>
    /\ puts = [g \in TaskIds |-> <<>>]
    /\ nextByte = 1
    /\ waiting = {}
    /\ returned = {}
    /\ nFail = 0
    /\ trace = <<>>

\* ---------------------------------------------------------- start and stop
start ==
    IF running
    THEN UNCHANGED <<running, sink, cam, nStarts>>
    ELSE /\ nStarts < MaxStarts
         /\ running' = TRUE
         /\ nStarts' = nStarts + 1
         /\ cam' = IF params.camera_out_enabled
                   THEN [cam EXCEPT ![nStarts + 1].pc = "loop"]
                   ELSE cam
         /\ sink' = [sink EXCEPT ![nStarts + 1].pc = "loop"]

\* Mutant of stop: the stopped event is set also when not running.
stop_SetsEventAlways ==
    IF ~running
    THEN /\ stoppedEvent' = TRUE
         /\ UNCHANGED running
    ELSE /\ running' = FALSE
         /\ stoppedEvent' = TRUE

stop ==
    IF ~running
    THEN UNCHANGED <<running, stoppedEvent>>
    ELSE /\ running' = FALSE
         /\ stoppedEvent' = TRUE

\* ---------------------------------------------------------- the push task
\* Mutant of CancelTask: the old task is not cancelled.
CancelTask_Skipped(ts, g) == ts

\* self._push_frame_task.cancel(): task g is thrown CancelledError at its
\* next step.
CancelTask(ts, g) ==
    IF ts[g].pc \in {"ready", "get", "push"}
    THEN [ts EXCEPT ![g].pc = "cancelled"]
    ELSE ts

\* Mutant of _create_push_task: the new task is given the old queue.
_create_push_task_SameQueue(ts) ==
    /\ tasks' = [ts EXCEPT ![push_frame_task + 1] = [pc |-> "ready", q |-> 0]]
    /\ push_frame_task' = push_frame_task + 1
    /\ push_queue' = push_queue

\* A new task, then a new queue; ts is the tasks as cancel() left them.
_create_push_task(ts) ==
    /\ tasks' = [ts EXCEPT ![push_frame_task + 1] = [pc |-> "ready", q |-> 0]]
    /\ push_frame_task' = push_frame_task + 1
    /\ push_queue' = push_queue + 1

\* Mutant of _handle_interruptions: interruptions_allowed is not read.
_handle_interruptions_IgnoresAllowed(kind) ==
    IF kind = "StartInterruption"
    THEN /\ push_frame_task <= MaxInterruptions
         /\ isInterrupted' = TRUE
         /\ _create_push_task(CancelTask(tasks, push_frame_task))
    ELSE /\ isInterrupted' = FALSE
         /\ UNCHANGED <<push_frame_task, push_queue, tasks>>

\* Mutant of _handle_interruptions: StopInterruption leaves the flag set.
_handle_interruptions_StopKeepsFlag(kind) ==
    IF ~params.interruptions_allowed
    THEN UNCHANGED <<isInterrupted, push_frame_task, push_queue, tasks>>
    ELSE IF kind = "StartInterruption"
    THEN /\ push_frame_task <= MaxInterruptions
         /\ isInterrupted' = TRUE
         /\ _create_push_task(CancelTask(tasks, push_frame_task))
    ELSE UNCHANGED <<isInterrupted, push_frame_task, push_queue, tasks>>

_handle_interruptions(kind) ==
    IF ~params.interruptions_allowed
    THEN UNCHANGED <<isInterrupted, push_frame_task, push_queue, tasks>>
    ELSE IF kind = "StartInterruption"
    THEN /\ push_frame_task <= MaxInterruptions
         /\ isInterrupted' = TRUE
         /\ _create_push_task(CancelTask(tasks, push_frame_task))
    ELSE /\ isInterrupted' = FALSE
         /\ UNCHANGED <<push_frame_task, push_queue, tasks>>

\* push_frame(frame, direction), called by process_frame (by = 0) or by push
\* task `by`.
push_frame(frame, direction, by) ==
    trace' = Append(trace, Call("push_frame", frame, direction, by, <<>>, TRUE))

\* One pass of the loop of _push_frame_task_handler from its top: the queue
\* is the one self._push_queue names now.
PushTaskRun(g) ==
    /\ tasks[g].pc \in {"ready", "push"}
    /\ IF queues[push_queue] # <<>>
       THEN /\ push_frame(Head(queues[push_queue]).frame,
                          Head(queues[push_queue]).direction, g)
            /\ queues' = [queues EXCEPT ![push_queue] = Tail(@)]
            /\ tasks' = [tasks EXCEPT ![g] = [pc |-> "push", q |-> 0]]
       ELSE /\ tasks' = [tasks EXCEPT ![g] = [pc |-> "get", q |-> push_queue]]
            /\ UNCHANGED <<queues, trace>>
    /\ UNCHANGED <<params, running, stoppedEvent, isInterrupted, sinkQueue, sink,
                   cam, nStarts, cameraQueue, cameraImages, push_frame_task,
                   push_queue, received, puts, nextByte, waiting, returned, nFail>>

\* The task blocked in get() of a queue is woken by an item put on it.
PushTaskWake(g) ==
    /\ tasks[g].pc = "get"
    /\ queues[tasks[g].q] # <<>>
    /\ push_frame(Head(queues[tasks[g].q]).frame,
                  Head(queues[tasks[g].q]).direction, g)
    /\ queues' = [queues EXCEPT ![tasks[g].q] = Tail(@)]
    /\ tasks' = [tasks EXCEPT ![g] = [pc |-> "push", q |-> 0]]
    /\ UNCHANGED <<params, running, stoppedEvent, isInterrupted, sinkQueue, sink,
                   cam, nStarts, cameraQueue, cameraImages, push_frame_task,
                   push_queue, received, puts, nextByte, waiting, returned, nFail>>

\* except asyncio.CancelledError: break
PushTaskCancelled(g) ==
    /\ tasks[g].pc = "cancelled"
    /\ tasks' = [tasks EXCEPT ![g] = [pc |-> "done", q |-> 0]]
    /\ UNCHANGED <<params, running, stoppedEvent, isInterrupted, sinkQueue, sink,
                   cam, nStarts, cameraQueue, cameraImages, push_frame_task,
                   push_queue, queues, received, puts, nextByte, waiting,
                   returned, nFail, trace>>

\* ----------------------------------------------------------- process_frame
\* The wait on _stopped_event that ends process_frame for Cancel and End.
AwaitStopped(id, stopped) ==
    IF stopped
    THEN /\ returned' = returned \cup {id}
         /\ UNCHANGED waiting
    ELSE /\ waiting' = waiting \cup {id}
         /\ UNCHANGED returned

ProcessStart(d) ==
    /\ nextId <= MaxFrames
    /\ start
    /\ push_frame(Frame("Start", nextId), d, 0)
    /\ received' = Append(received, Frame("Start", nextId))
    /\ UNCHANGED <<params, stoppedEvent, isInterrupted, sinkQueue, cameraQueue,
                   cameraImages, push_frame_task, push_queue, tasks, queues,
                   puts, nextByte, waiting, returned, nFail>>

ProcessCancel(d) ==
    /\ nextId <= MaxFrames
    /\ stop
    /\ push_frame(Frame("Cancel", nextId), d, 0)
    /\ AwaitStopped(nextId, stoppedEvent')
    /\ received' = Append(received, Frame("Cancel", nextId))
    /\ UNCHANGED <<params, isInterrupted, sinkQueue, sink, cam, nStarts,
                   cameraQueue, cameraImages, push_frame_task, push_queue, tasks,
                   queues, puts, nextByte, nFail>>

ProcessInterruption(kind, d) ==
    /\ nextId <= MaxFrames
    /\ _handle_interruptions(kind)
    /\ push_frame(Frame(kind, nextId), d, 0)
    /\ received' = Append(received, Frame(kind, nextId))
    /\ UNCHANGED <<params, running, stoppedEvent, sinkQueue, sink, cam, nStarts,
                   cameraQueue, cameraImages, queues, puts, nextByte, waiting,
                   returned, nFail>>

\* Mutant of SystemFrame: the frame falls through to the sink queue.
SystemFrame_Queued(frame, d) ==
    /\ sinkQueue' = Append(sinkQueue, frame)
    /\ UNCHANGED trace

\* elif isinstance(frame, SystemFrame)
SystemFrame(frame, d) ==
    /\ push_frame(frame, d, 0)
    /\ UNCHANGED sinkQueue

ProcessSystem(d) ==
    /\ nextId <= MaxFrames
    /\ SystemFrame(Frame("System", nextId), d)
    /\ received' = Append(received, Frame("System", nextId))
    /\ UNCHANGED <<params, running, stoppedEvent, isInterrupted, sink, cam,
                   nStarts, cameraQueue, cameraImages, push_frame_task,
                   push_queue, tasks, queues, puts, nextByte, waiting, returned,
                   nFail>>

_handle_audio(frame) ==
    LET chunks == AudioChunks(frame.audio, audio_chunk_size)
    IN  sinkQueue' = sinkQueue \o
            [k \in 1..Len(chunks) |-> AudioRawFrame(chunks[k], frame.id)]

\* An AudioRawFrame of len bytes: bytes nextByte .. nextByte + len - 1.
ProcessAudio(len) ==
    /\ nextId <= MaxFrames
    /\ LET frame == AudioRawFrame([i \in 1..len |-> nextByte + i - 1], nextId)
       IN  /\ _handle_audio(frame)
           /\ received' = Append(received, frame)
    /\ nextByte' = nextByte + len
    /\ UNCHANGED <<params, running, stoppedEvent, isInterrupted, sink, cam,
                   nStarts, cameraQueue, cameraImages, push_frame_task,
                   push_queue, tasks, queues, puts, waiting, returned, nFail,
                   trace>>

\* Any other frame, End included, goes to the sink queue.
ProcessOther(frame) ==
    /\ nextId <= MaxFrames
    /\ frame.id = nextId
    /\ sinkQueue' = Append(sinkQueue, frame)
    /\ IF frame.kind = "End"
       THEN AwaitStopped(nextId, stoppedEvent)
       ELSE UNCHANGED <<waiting, returned>>
    /\ received' = Append(received, frame)
    /\ UNCHANGED <<params, running, stoppedEvent, isInterrupted, sink, cam,
                   nStarts, cameraQueue, cameraImages, push_frame_task,
                   push_queue, tasks, queues, puts, nextByte, nFail, trace>>

\* _stopped_event.wait() returns once the event is set.
ProcessFrameReturn(id) ==
    /\ id \in waiting
    /\ stoppedEvent
    /\ waiting' = waiting \ {id}
    /\ returned' = returned \cup {id}
    /\ UNCHANGED <<params, running, stoppedEvent, isInterrupted, sinkQueue, sink,
                   cam, nStarts, cameraQueue, cameraImages, push_frame_task,
                   push_queue, tasks, queues, received, puts, nextByte, nFail,
                   trace>>

\* --------------------------------------------------------- the sink thread
\* Mutant of AfterItem: an EndFrame is not tested for.
AfterItem_NoEndTest(frame) == "loop"

\* Where the loop goes once an item is handled: an EndFrame triggers stop().
AfterItem(frame) == IF frame.kind = "End" THEN "stop" ELSE "loop"

\* while self._running
SinkLoop(t) ==
    /\ sink[t].pc = "loop"
    /\ sink' = [sink EXCEPT ![t].pc = IF running THEN "get" ELSE "exited"]
    /\ UNCHANGED <<params, running, stoppedEvent, isInterrupted, sinkQueue, cam,
                   nStarts, cameraQueue, cameraImages, push_frame_task,
                   push_queue, tasks, queues, received, puts, nextByte, waiting,
                   returned, nFail, trace>>

\* self._sink_queue.get(timeout=1): an item, or queue.Empty
SinkGet(t) ==
    /\ sink[t].pc = "get"
    /\ IF sinkQueue # <<>>
       THEN /\ sink' = [sink EXCEPT ![t].pc = "have", ![t].frame = Head(sinkQueue)]
            /\ sinkQueue' = Tail(sinkQueue)
       ELSE /\ sink' = [sink EXCEPT ![t].pc = "loop"]
            /\ UNCHANGED sinkQueue
    /\ UNCHANGED <<params, running, stoppedEvent, isInterrupted, cam, nStarts,
                   cameraQueue, cameraImages, push_frame_task, push_queue, tasks,
                   queues, received, puts, nextByte, waiting, returned, nFail,
                   trace>>

\* Mutant of SinkCheckInterrupted: the flag is not read.
SinkCheckInterrupted_IgnoresFlag(t) ==
    /\ sink[t].pc = "have"
    /\ sink' = [sink EXCEPT ![t].pc = "handle"]
    /\ UNCHANGED <<params, running, stoppedEvent, isInterrupted, sinkQueue, cam,
                   nStarts, cameraQueue, cameraImages, push_frame_task,
                   push_queue, tasks, queues, received, puts, nextByte, waiting,
                   returned, nFail, trace>>

\* Mutant of SinkCheckInterrupted: an item dequeued while interrupted skips
\* the EndFrame test too.
SinkCheckInterrupted_SkipsEnd(t) ==
    /\ sink[t].pc = "have"
    /\ sink' = IF ~isInterrupted
               THEN [sink EXCEPT ![t].pc = "handle"]
               ELSE [sink EXCEPT ![t].pc = "loop", ![t].buffer = <<>>]
    /\ UNCHANGED <<params, running, stoppedEvent, isInterrupted, sinkQueue, cam,
                   nStarts, cameraQueue, cameraImages, push_frame_task,
                   push_queue, tasks, queues, received, puts, nextByte, waiting,
                   returned, nFail, trace>>

\* if not self._is_interrupted.is_set(): ... else: buffer = bytearray()
SinkCheckInterrupted(t) ==
    /\ sink[t].pc = "have"
    /\ sink' = IF ~isInterrupted
               THEN [sink EXCEPT ![t].pc = "handle"]
               ELSE [sink EXCEPT ![t].pc = AfterItem(sink[t].frame),
                                 ![t].buffer = <<>>]
    /\ UNCHANGED <<params, running, stoppedEvent, isInterrupted, sinkQueue, cam,
                   nStarts, cameraQueue, cameraImages, push_frame_task,
                   push_queue, tasks, queues, received, puts, nextByte, waiting,
                   returned, nFail, trace>>

\* AudioRawFrame with audio out enabled: buffer.extend, _maybe_send_audio
SinkAudio(t) ==
    /\ sink[t].pc = "handle"
    /\ sink[t].frame.kind = "Audio" /\ params.audio_out_enabled
    /\ \E written \in BOOLEAN :
          LET r == _maybe_send_audio(sink[t].buffer \o sink[t].frame.audio,
                                     audio_chunk_size, written)
          IN  /\ written \/ (r.attempted /\ nFail < MaxWriteFailures)
              /\ sink' = [sink EXCEPT ![t].pc = AfterItem(sink[t].frame),
                                      ![t].buffer = r.buffer]
              /\ trace' = IF r.attempted
                          THEN Append(trace, Call("write_raw_audio_frames",
                                   sink[t].frame, DOWNSTREAM, t, r.offered, written))
                          ELSE trace
              /\ nFail' = IF written THEN nFail ELSE nFail + 1
    /\ UNCHANGED <<params, running, stoppedEvent, isInterrupted, sinkQueue, cam,
                   nStarts, cameraQueue, cameraImages, push_frame_task,
                   push_queue, tasks, queues, received, puts, nextByte, waiting,
                   returned>>

\* Mutant of _set_camera_image: a live image goes to the head of the queue.
_set_camera_image_Prepends(image) ==
    IF params.camera_out_is_live
    THEN /\ cameraQueue' = <<Image(image.id, 1)>> \o cameraQueue
         /\ UNCHANGED cameraImages
    ELSE /\ cameraImages' = [set |-> TRUE, images |-> <<Image(image.id, 1)>>, next |-> 1]
         /\ UNCHANGED cameraQueue

_set_camera_image(image) ==
    IF params.camera_out_is_live
    THEN /\ cameraQueue' = Append(cameraQueue, Image(image.id, 1))
         /\ UNCHANGED cameraImages
    ELSE /\ cameraImages' = [set |-> TRUE, images |-> <<Image(image.id, 1)>>, next |-> 1]
         /\ UNCHANGED cameraQueue

\* Mutant of _set_camera_images: the new cycle starts where the old one was.
_set_camera_images_KeepsPosition(images) ==
    /\ cameraImages' = [set |-> TRUE, images |-> images,
                        next |-> IF cameraImages.next <= Len(images)
                                 THEN cameraImages.next ELSE 1]
    /\ UNCHANGED cameraQueue

_set_camera_images(images) ==
    /\ cameraImages' = [set |-> TRUE, images |-> images, next |-> 1]
    /\ UNCHANGED cameraQueue

\* ImageRawFrame with camera out enabled
SinkImage(t) ==
    /\ sink[t].pc = "handle"
    /\ sink[t].frame.kind = "Image" /\ params.camera_out_enabled
    /\ _set_camera_image(sink[t].frame)
    /\ sink' = [sink EXCEPT ![t].pc = AfterItem(sink[t].frame)]
    /\ UNCHANGED <<params, running, stoppedEvent, isInterrupted, sinkQueue, cam,
                   nStarts, push_frame_task, push_queue, tasks, queues, received,
                   puts, nextByte, waiting, returned, nFail, trace>>

\* SpriteFrame with camera out enabled
SinkSprite(t) ==
    /\ sink[t].pc = "handle"
    /\ sink[t].frame.kind = "Sprite" /\ params.camera_out_enabled
    /\ _set_camera_images(sink[t].frame.images)
    /\ sink' = [sink EXCEPT ![t].pc = AfterItem(sink[t].frame)]
    /\ UNCHANGED <<params, running, stoppedEvent, isInterrupted, sinkQueue, cam,
                   nStarts, push_frame_task, push_queue, tasks, queues, received,
                   puts, nextByte, waiting, returned, nFail, trace>>

\* TransportMessageFrame: send_message; MetricsFrame: send_metrics
SinkSend(t) ==
    /\ sink[t].pc = "handle"
    /\ sink[t].frame.kind \in {"Message", "Metrics"}
    /\ trace' = Append(trace,
           Call(IF sink[t].frame.kind = "Message" THEN "send_message" ELSE "send_metrics",
                sink[t].frame, DOWNSTREAM, t, <<>>, TRUE))
    /\ sink' = [sink EXCEPT ![t].pc = AfterItem(sink[t].frame)]
    /\ UNCHANGED <<params, running, stoppedEvent, isInterrupted, sinkQueue, cam,
                   nStarts, cameraQueue, cameraImages, push_frame_task,
                   push_queue, tasks, queues, received, puts, nextByte, waiting,
                   returned, nFail>>

\* The frames the last branch of the sink loop takes.
Forwarded(frame) ==
    ~ \/ frame.kind = "Audio" /\ params.audio_out_enabled
      \/ frame.kind \in {"Image", "Sprite"} /\ params.camera_out_enabled
      \/ frame.kind \in {"Message", "Metrics"}

\* else: run_coroutine_threadsafe(self._internal_push_frame(frame), loop)
SinkForward(t) ==
    /\ sink[t].pc = "handle"
    /\ Forwarded(sink[t].frame)
    /\ sink' = [sink EXCEPT ![t].pc = "forward"]
    /\ UNCHANGED <<params, running, stoppedEvent, isInterrupted, sinkQueue, cam,
                   nStarts, cameraQueue, cameraImages, push_frame_task,
                   push_queue, tasks, queues, received, puts, nextByte, waiting,
                   returned, nFail, trace>>

\* _internal_push_frame runs on the event loop; future.result() returns.
_internal_push_frame(t) ==
    /\ sink[t].pc = "forward"
    /\ queues' = [queues EXCEPT ![push_queue] =
                     Append(@, [frame |-> sink[t].frame, direction |-> DOWNSTREAM])]
    /\ puts' = [puts EXCEPT ![push_queue] = Append(@, sink[t].frame.id)]
    /\ sink' = [sink EXCEPT ![t].pc = AfterItem(sink[t].frame)]
    /\ UNCHANGED <<params, running, stoppedEvent, isInterrupted, sinkQueue, cam,
                   nStarts, cameraQueue, cameraImages, push_frame_task,
                   push_queue, tasks, received, nextByte, waiting, returned,
                   nFail, trace>>

\* if isinstance(frame, EndFrame): stop() runs on the event loop
SinkStop(t) ==
    /\ sink[t].pc = "stop"
    /\ stop
    /\ sink' = [sink EXCEPT ![t].pc = "loop"]
    /\ UNCHANGED <<params, isInterrupted, sinkQueue, cam, nStarts, cameraQueue,
                   cameraImages, push_frame_task, push_queue, tasks, queues,
                   received, puts, nextByte, waiting, returned, nFail, trace>>

\* -------------------------------------------------------- the camera thread
\* while self._running
CameraLoop(t) ==
    /\ cam[t].pc = "loop"
    /\ cam' = [cam EXCEPT ![t].pc = IF running THEN "body" ELSE "exited"]
    /\ UNCHANGED <<params, running, stoppedEvent, isInterrupted, sinkQueue, sink,
                   nStarts, cameraQueue, cameraImages, push_frame_task,
                   push_queue, tasks, queues, received, puts, nextByte, waiting,
                   returned, nFail, trace>>

\* _draw_image: write_frame_to_camera
_draw_image(image, t) ==
    trace' = Append(trace, Call("write_frame_to_camera", Frame("Image", image.id),
                                DOWNSTREAM, t, <<image.index>>, TRUE))

CameraWrites ==
    Cardinality({i \in 1..Len(trace) : trace[i].op = "write_frame_to_camera"})

\* The top of one pass of the camera loop: the image it takes, from the live
\* queue (get(timeout=1), or queue.Empty) or from the cycle (next(), which
\* raises on an empty cycle), or the sleep when there is none.
CameraBody(t) ==
    /\ cam[t].pc = "body"
    /\ IF params.camera_out_is_live
       THEN IF cameraQueue # <<>>
            THEN /\ CameraWrites < MaxCamWrites
                 /\ cam' = [cam EXCEPT ![t] = [pc |-> "draw", image |-> Head(cameraQueue)]]
                 /\ cameraQueue' = Tail(cameraQueue)
                 /\ UNCHANGED cameraImages
            ELSE /\ cam' = [cam EXCEPT ![t].pc = "loop"]
                 /\ UNCHANGED <<cameraQueue, cameraImages>>
       ELSE IF cameraImages.set /\ cameraImages.images # <<>>
            THEN /\ CameraWrites < MaxCamWrites
                 /\ cam' = [cam EXCEPT ![t] =
                        [pc |-> "draw", image |-> cameraImages.images[cameraImages.next]]]
                 /\ cameraImages' = [cameraImages EXCEPT
                        !.next = (@ % Len(cameraImages.images)) + 1]
                 /\ UNCHANGED cameraQueue
            ELSE /\ cam' = [cam EXCEPT ![t].pc = "loop"]
                 /\ UNCHANGED <<cameraQueue, cameraImages>>
    /\ UNCHANGED <<params, running, stoppedEvent, isInterrupted, sinkQueue, sink,
                   nStarts, push_frame_task, push_queue, tasks, queues, received,
                   puts, nextByte, waiting, returned, nFail, trace>>

\* self._draw_image(image) for the image taken, then task_done() or the sleep.
CameraDraw(t) ==
    /\ cam[t].pc = "draw"
    /\ _draw_image(cam[t].image, t)
    /\ cam' = [cam EXCEPT ![t].pc = "loop"]
    /\ UNCHANGED <<params, running, stoppedEvent, isInterrupted, sinkQueue, sink,
                   nStarts, cameraQueue, cameraImages, push_frame_task,
                   push_queue, tasks, queues, received, puts, nextByte, waiting,
                   returned, nFail>>

\* ----------------------------------------------------------- specifications
\* The sink loop without its media branches.
SinkControl(t) ==
    \/ SinkLoop(t)
    \/ SinkGet(t)
    \/ SinkCheckInterrupted(t)

\* Dispatch and the push task: interruptions allowed, no media output.
Init == InitParams(Params(FALSE, 100, 1, FALSE, FALSE, TRUE))

Next ==
    \/ ProcessStart(DOWNSTREAM)
    \/ ProcessCancel(DOWNSTREAM)
    \/ \E k \in {"StartInterruption", "StopInterruption"} :
          ProcessInterruption(k, DOWNSTREAM)
    \/ ProcessSystem(DOWNSTREAM)
    \/ \E k \in {"Message", "Text", "End"} : ProcessOther(Frame(k, nextId))
    \/ \E id \in waiting : ProcessFrameReturn(id)
    \/ \E t \in Threads :
          \/ SinkControl(t)
          \/ SinkSend(t)
          \/ SinkForward(t)
          \/ _internal_push_frame(t)
          \/ SinkStop(t)
    \/ \E g \in TaskIds :
          \/ PushTaskRun(g)
          \/ PushTaskWake(g)
          \/ PushTaskCancelled(g)

Spec == Init /\ [][Next]_vars

\* Audio output: the sink loop buffering and writing chunks, writes that may
\* fail, interruptions.
InitAudio == InitParams(Params(TRUE, 100, 1, FALSE, FALSE, TRUE))

NextAudio ==
    \/ ProcessStart(DOWNSTREAM)
    \/ \E k \in {"StartInterruption", "StopInterruption"} :
          ProcessInterruption(k, DOWNSTREAM)
    \/ \E len \in {1, MaxAudioLen} : ProcessAudio(len)
    \/ \E t \in Threads :
          \/ SinkControl(t)
          \/ SinkAudio(t)
    \/ \E g \in TaskIds :
          \/ PushTaskRun(g)
          \/ PushTaskCancelled(g)

SpecAudio == InitAudio /\ [][NextAudio]_vars

\* Start and stop: Start, Cancel and End frames around messages and images,
\* camera output enabled (not live).
InitLifecycle == InitParams(Params(FALSE, 100, 1, TRUE, FALSE, FALSE))

NextLifecycle ==
    \/ ProcessStart(DOWNSTREAM)
    \/ ProcessCancel(DOWNSTREAM)
    \/ \E k \in {"Message", "Image", "End"} : ProcessOther(Frame(k, nextId))
    \/ \E id \in waiting : ProcessFrameReturn(id)
    \/ \E t \in Threads :
          \/ SinkControl(t)
          \/ SinkSend(t)
          \/ SinkImage(t)
          \/ SinkForward(t)
          \/ _internal_push_frame(t)
          \/ SinkStop(t)
          \/ CameraLoop(t)
          \/ CameraBody(t)
          \/ CameraDraw(t)
    \/ \E g \in TaskIds :
          \/ PushTaskRun(g)
          \/ PushTaskWake(g)

SpecLifecycle == InitLifecycle /\ [][NextLifecycle]_vars

\* The chunker alone: audio frames of any length given to process_frame, for
\* each chunk size the parameters can give.
InitChunk ==
    \E rate \in 1..MaxRate, channels \in 1..MaxChannels :
        InitParams(Params(TRUE, 100 * rate, channels, FALSE, FALSE, FALSE))

NextChunk == \E len \in 0..MaxPayload : ProcessAudio(len)

SpecChunk == InitChunk /\ [][NextChunk]_vars

\* Barge-in: the transport started, BargeChunks full-size chunks of one audio
\* frame on the sink queue, and a StartInterruption once BargeAfter chunks are
\* written.
BargeParams == Params(TRUE, 100, 1, FALSE, FALSE, TRUE)
BargeAudio ==
    AudioRawFrame([i \in 1..(BargeChunks * ChunkSize(BargeParams)) |-> i], 2)

InitBarge ==
    /\ params = BargeParams
    /\ running = TRUE
    /\ stoppedEvent = FALSE
    /\ isInterrupted = FALSE
    /\ sinkQueue = LET chunks == AudioChunks(BargeAudio.audio, ChunkSize(BargeParams))
                   IN  [k \in 1..Len(chunks) |-> AudioRawFrame(chunks[k], 2)]
    /\ sink = [t \in Threads |->
                 [pc |-> IF t = 1 THEN "loop" ELSE "idle", frame |-> NoFrame,
                  buffer |-> <<>>]]
    /\ cam = [t \in Threads |-> [pc |-> "idle", image |-> NoImage]]
    /\ nStarts = 1
    /\ cameraQueue = <<>>
    /\ cameraImages = [set |-> FALSE, images |-> <<>>, next |-> 1]
    /\ push_frame_task = 1
    /\ push_queue = 1
    /\ tasks = [g \in TaskIds |-> [pc |-> IF g = 1 THEN "ready" ELSE "none", q |-> 0]]
    /\ queues = [g \in TaskIds |-> <<>>]
    /\ received = <<Frame("Start", 1), BargeAudio>>
    /\ puts = [g \in TaskIds |-> <<>>]
    /\ nextByte = Len(BargeAudio.audio) + 1
    /\ waiting = {}
    /\ returned = {}
    /\ nFail = 0
    /\ trace = <<Call("push_frame", Frame("Start", 1), DOWNSTREAM, 0, <<>>, TRUE)>>

\* The chunks written so far.
Written ==
    {i \in 1..Len(trace) : trace[i].op = "write_raw_audio_frames" /\ trace[i].ok}

BargeInterruption ==
    /\ Cardinality(Written) = BargeAfter
    /\ ProcessInterruption("StartInterruption", DOWNSTREAM)

NextBarge ==
    \/ BargeInterruption
    \/ \E t \in Threads :
          \/ SinkControl(t)
          \/ SinkAudio(t)
    \/ \E g \in TaskIds :
          \/ PushTaskRun(g)
          \/ PushTaskCancelled(g)

SpecBarge == InitBarge /\ [][NextBarge]_vars

\* ------------------------------------------------------------------ claims
\* push_frame calls made by push task g (by process_frame itself for g = 0).
Emits(g) ==
    SelectSeq(trace, LAMBDA e : e.op = "push_frame" /\ e.by = g)

Ids(s) == [i \in 1..Len(s) |-> s[i].id]

QueuedIds(g) == [i \in 1..Len(queues[g]) |-> queues[g][i].frame.id]

IsPrefix(s, t) == Len(s) <= Len(t) /\ s = SubSeq(t, 1, Len(s))

\* The StartInterruption frames that replaced the push task, among the first
\* i calls of the trace.
Rotations(i) ==
    IF params.interruptions_allowed
    THEN Cardinality({j \in 1..i : trace[j].kind = "StartInterruption"
                                    /\ trace[j].by = 0})
    ELSE 0

SinkLoopsExited == \A t \in Threads : sink[t].pc \in {"idle", "exited"}
CameraLoopsExited == \A t \in Threads : cam[t].pc \in {"idle", "exited"}

\* The call this step adds to the trace is one of the sink or camera loops'
\* writes.
WritesNow ==
    /\ Len(trace') = Len(trace) + 1
    /\ trace'[Len(trace')].op \in {"write_raw_audio_frames", "write_frame_to_camera",
                                   "send_message", "send_metrics"}

\* C1 (as claimed): whenever the stopped event is set, the sink loop and the
\* camera loop have exited, and no write_raw_audio_frames,
\* write_frame_to_camera, send_message or send_metrics call is made afterwards.
C1_ShutdownCompletion ==
    [][stoppedEvent' =>
          /\ SinkLoopsExited'
          /\ params.camera_out_enabled => CameraLoopsExited'
          /\ stoppedEvent => ~WritesNow]_vars

\* C2: with interruptions allowed, a frame put on a push queue that a
\* StartInterruption has replaced is never passed to push_frame after that
\* StartInterruption, and every frame put on the current queue is still
\* pending in it or was emitted by the current push task.
C2_InterruptionDrop ==
    /\ \A i \in 1..Len(trace) : \A j \in (i + 1)..Len(trace) :
          ( /\ params.interruptions_allowed
            /\ trace[i].kind = "StartInterruption" /\ trace[i].by = 0
            /\ trace[j].op = "push_frame" /\ trace[j].by > 0 )
          => \A g \in 1..Rotations(i) :
                \A k \in 1..Len(puts[g]) : puts[g][k] # trace[j].id
    /\ puts[push_queue] = Ids(Emits(push_frame_task)) \o QueuedIds(push_queue)

\* C2 witness: a replaced queue still holds a frame it will never deliver, and
\* the new push task has emitted a frame put after the replacement.
C2_Witness ==
    /\ push_queue > 1
    /\ \E g \in 1..(push_queue - 1) : queues[g] # <<>>
    /\ Emits(push_frame_task) # <<>>

\* The calls that are effects of frames taken from the sink queue.
SinkEffect(e) ==
    \/ e.op \in {"write_raw_audio_frames", "send_message", "send_metrics"}
    \/ e.op = "push_frame" /\ e.by > 0

\* C3 (as claimed): with no interruption, the effects of the frames put on the
\* sink queue reach the collaborators in the order the frames were enqueued,
\* across collaborators.
C3_OrderPreserved ==
    (\A n \in 1..Len(received) : received[n].kind # "StartInterruption")
    => \A i \in 1..Len(trace) : \A j \in (i + 1)..Len(trace) :
          SinkEffect(trace[i]) /\ SinkEffect(trace[j])
          => trace[i].id <= trace[j].id

\* A write_raw_audio_frames call of sink thread t failed.
WriteFailed(t) ==
    \E i \in 1..Len(trace) :
        trace[i].op = "write_raw_audio_frames" /\ trace[i].by = t /\ ~trace[i].ok

RECURSIVE Concat(_)
Concat(chunks) ==
    IF chunks = <<>> THEN <<>>
    ELSE Head(chunks).audio \o Concat(Tail(chunks))

\* The chunks of frame n on the sink queue.
ChunksOf(n) == SelectSeq(sinkQueue, LAMBDA f : f.id = n)

\* C5: an audio payload of length L becomes ceil(L / C) audio frames on the
\* sink queue, each but the last of C bytes, whose payloads concatenated in
\* queue order are the payload.
C5_ChunkingExactness ==
    \A n \in 1..Len(received) :
        received[n].kind = "Audio" =>
            LET audio == received[n].audio
                chunks == ChunksOf(n)
            IN  /\ Len(chunks) = (Len(audio) + audio_chunk_size - 1) \div audio_chunk_size
                /\ \A k \in 1..Len(chunks) : chunks[k].kind = "Audio"
                /\ \A k \in 1..(Len(chunks) - 1) :
                      Len(chunks[k].audio) = audio_chunk_size
                /\ Len(Concat(chunks)) = Len(audio)
                /\ Concat(chunks) = audio

\* C5 witness: a payload of more than one chunk whose last chunk is short.
C5_Witness ==
    \E n \in 1..Len(received) :
        /\ Len(received[n].audio) > audio_chunk_size
        /\ Len(received[n].audio) % audio_chunk_size # 0
        /\ Len(ChunksOf(n)) >= 2

\* write_raw_audio_frames calls after the first StartInterruption.
WritesAfterInterruption ==
    {j \in 1..Len(trace) :
        /\ trace[j].op = "write_raw_audio_frames"
        /\ \E i \in 1..(j - 1) : trace[i].kind = "StartInterruption"}

\* C6: in the barge-in scenario, at most one chunk is written after the
\* StartInterruption, and once the sink queue is drained the buffer is empty.
C6_BargeInBound ==
    isInterrupted =>
        /\ Cardinality(WritesAfterInterruption) <= 1
        /\ \A t \in Threads :
              sinkQueue = <<>> /\ sink[t].pc \in {"loop", "get"}
              => sink[t].buffer = <<>>

\* C6 witness: one chunk was written after the StartInterruption, the queue
\* is drained and the buffer empty.
C6_Witness ==
    /\ isInterrupted
    /\ Cardinality(WritesAfterInterruption) = 1
    /\ Cardinality(Written) = BargeAfter + 1
    /\ sinkQueue = <<>>
    /\ sink[1].pc = "loop" /\ sink[1].buffer = <<>>

\* C7: every system frame is passed to push_frame by process_frame itself as
\* it is received, so in the order received, and none is on the sink queue,
\* on a push queue or in the hands of the sink loop.
C7_ControlFramesBypassQueues ==
    /\ \A i \in 1..Len(sinkQueue) : sinkQueue[i].kind \notin SystemKinds
    /\ \A g \in TaskIds : \A i \in 1..Len(queues[g]) :
          queues[g][i].frame.kind \notin SystemKinds
    /\ \A t \in Threads : sink[t].frame.kind \notin SystemKinds
    /\ LET direct == Emits(0)
           system == SelectSeq(received, LAMBDA f : f.kind \in SystemKinds)
       IN  /\ Len(direct) = Len(system)
           /\ \A i \in 1..Len(direct) :
                 direct[i].id = system[i].id /\ direct[i].kind = system[i].kind

\* C7 witness: a system frame was just emitted while frames are pending on
\* the sink queue and on the push queue.
C7_Witness ==
    /\ sinkQueue # <<>>
    /\ queues[push_queue] # <<>>
    /\ trace # <<>>
    /\ trace[Len(trace)].by = 0
    /\ trace[Len(trace)].kind = "System"
    /\ trace[Len(trace)].id = Len(received)

\* C8: what push task g has emitted is a prefix of what was put on the queue
\* created with it (the order of the puts, each once), and every emission is
\* made by the push task that is current when it is made.
C8_PushQueueFifo ==
    /\ \A g \in TaskIds : IsPrefix(Ids(Emits(g)), puts[g])
    /\ \A i \in 1..Len(trace) :
          trace[i].op = "push_frame" /\ trace[i].by > 0
          => trace[i].by = 1 + Rotations(i)

\* C8 witness: a push task emitted two frames and was then replaced.
C8_Witness ==
    /\ Len(Emits(1)) >= 2
    /\ push_frame_task = 2

\* C9 (as claimed): at most one sink loop is alive at any time.
C9_SingleSinkConsumer ==
    Cardinality({t \in Threads : sink[t].pc \notin {"idle", "exited"}}) <= 1

\* The step is a write_raw_audio_frames call of sink thread t.
WriteStep(t) ==
    /\ Len(trace') = Len(trace) + 1
    /\ trace'[Len(trace')].op = "write_raw_audio_frames"
    /\ trace'[Len(trace')].by = t

\* C10: a write offers the oldest chunk of the buffer; when it fails the loop
\* goes on, the buffer keeps every byte, and the loop's next audio item offers
\* the same chunk again.
C10_WriteFailureIsolation ==
    [][\A t \in Threads :
          LET before == sink[t].buffer \o sink[t].frame.audio
          IN  /\ WriteStep(t) =>
                    /\ trace'[Len(trace')].data = Slice(before, 0, audio_chunk_size)
                    /\ Len(sink[t].buffer) >= audio_chunk_size =>
                          trace'[Len(trace')].data =
                              Slice(sink[t].buffer, 0, audio_chunk_size)
                    /\ ~trace'[Len(trace')].ok =>
                          /\ sink'[t].buffer = before
                          /\ sink'[t].pc = "loop"
              /\ ( /\ sink[t].pc = "handle" /\ sink'[t].pc # "handle"
                   /\ sink[t].frame.kind = "Audio"
                   /\ Len(sink[t].buffer) >= audio_chunk_size )
                 => WriteStep(t)]_vars

\* C10 witness: a write failed and the same loop later wrote the same bytes.
C10_Witness ==
    \E i \in 1..Len(trace) : \E j \in (i + 1)..Len(trace) :
        /\ trace[i].op = "write_raw_audio_frames" /\ ~trace[i].ok
        /\ trace[j].op = "write_raw_audio_frames" /\ trace[j].ok
        /\ trace[j].by = trace[i].by
        /\ trace[j].data = trace[i].data

\* C11 (as claimed): a sink loop that has handled an End frame and run stop()
\* takes no further item from the sink queue, also when a Start frame is
\* processed in between.
C11_EndStopsSinkLoop ==
    [][\A t \in Threads :
          sink[t].frame.kind = "End" /\ sink[t].pc \in {"loop", "get"}
          => ~(sink'[t].pc = "have" /\ sinkQueue' # sinkQueue)]_vars

\* Interruptions not allowed: interruption frames around audio and text
\* frames, audio output enabled.
InitNoInterruptions == InitParams(Params(TRUE, 100, 1, FALSE, FALSE, FALSE))

NextNoInterruptions ==
    \/ ProcessStart(DOWNSTREAM)
    \/ \E k \in {"StartInterruption", "StopInterruption"} :
          ProcessInterruption(k, DOWNSTREAM)
    \/ \E len \in {1, MaxAudioLen} : ProcessAudio(len)
    \/ ProcessOther(Frame("Text", nextId))
    \/ \E t \in Threads :
          \/ SinkControl(t)
          \/ SinkAudio(t)
          \/ SinkForward(t)
          \/ _internal_push_frame(t)
    \/ \E g \in TaskIds :
          \/ PushTaskRun(g)
          \/ PushTaskWake(g)

SpecNoInterruptions == InitNoInterruptions /\ [][NextNoInterruptions]_vars

\* The step is process_frame handling a frame of one of the kinds.
Handles(kinds) ==
    /\ Len(received') = Len(received) + 1
    /\ received'[Len(received')].kind \in kinds

\* C12: with interruptions not allowed, handling a StartInterruption or a
\* StopInterruption leaves the interrupted flag, the push task and the push
\* queue as they were and passes the frame to push_frame; the flag is never
\* set, the push task is never cancelled, and a sink loop's buffer only loses
\* the chunk it has written.
C12_InterruptionsDisabled ==
    [][/\ Handles({"StartInterruption", "StopInterruption"}) =>
             /\ UNCHANGED <<isInterrupted, push_frame_task, push_queue, tasks,
                            queues, sink>>
             /\ trace' = Append(trace, Call("push_frame", received'[Len(received')],
                                            DOWNSTREAM, 0, <<>>, TRUE))
       /\ ~isInterrupted'
       /\ tasks'[1].pc \in {"ready", "get", "push"}
       /\ \A t \in Threads :
             sink'[t].buffer # sink[t].buffer =>
                \/ sink'[t].buffer = sink[t].buffer \o sink[t].frame.audio
                \/ /\ WriteStep(t)
                   /\ trace'[Len(trace')].data \o sink'[t].buffer
                         = sink[t].buffer \o sink[t].frame.audio]_vars

\* C12 witness: a StartInterruption was handled while a frame was pending on
\* the push queue and a sink loop held buffered audio; the frame was emitted
\* afterwards and the buffer is still held.
C12_Witness ==
    /\ \E i \in 1..Len(trace) : \E j \in (i + 1)..Len(trace) :
          /\ trace[i].kind = "StartInterruption" /\ trace[i].by = 0
          /\ trace[j].op = "push_frame" /\ trace[j].by = 1
          /\ trace[j].id < trace[i].id
    /\ \E t \in Threads : \E n \in 1..Len(received) :
          /\ sink[t].buffer # <<>>
          /\ received[n].kind = "StartInterruption"
          /\ \A k \in 1..Len(sink[t].buffer) :
                \E m \in 1..(n - 1) : \E b \in 1..Len(received[m].audio) :
                    received[m].audio[b] = sink[t].buffer[k]

\* C13: handling StopInterruption clears the interrupted flag, passes the
\* frame to push_frame and changes nothing else (the push queue and its
\* contents, the replaced queues, the sink queue, running, the stopped event
\* and the sink loops are as they were); an item whose flag test finds the
\* flag clear is handled by its branch: sent, or put on the current push
\* queue.
C13_StopInterruptionEffect ==
    [][/\ Handles({"StopInterruption"}) =>
             /\ ~isInterrupted'
             /\ UNCHANGED <<push_frame_task, push_queue, tasks, queues, puts,
                            sinkQueue, running, stoppedEvent, sink, cam,
                            cameraQueue, cameraImages, waiting, returned>>
             /\ trace' = Append(trace, Call("push_frame", received'[Len(received')],
                                            DOWNSTREAM, 0, <<>>, TRUE))
       /\ \A t \in Threads :
             /\ ( sink[t].pc = "have" /\ sink'[t].pc # "have" /\ ~isInterrupted )
                => sink'[t] = [sink[t] EXCEPT !.pc = "handle"]
             /\ ( sink[t].pc = "handle" /\ sink'[t].pc # "handle" )
                => \/ /\ trace' = Append(trace,
                             Call(IF sink[t].frame.kind = "Message"
                                  THEN "send_message" ELSE "send_metrics",
                                  sink[t].frame, DOWNSTREAM, t, <<>>, TRUE))
                      /\ sink[t].frame.kind \in {"Message", "Metrics"}
                   \/ sink'[t].pc = "forward"
             /\ ( sink[t].pc = "forward" /\ sink'[t].pc # "forward" )
                => /\ puts' = [puts EXCEPT ![push_queue] = Append(@, sink[t].frame.id)]
                   /\ queues'[push_queue] = Append(queues[push_queue],
                          [frame |-> sink[t].frame, direction |-> DOWNSTREAM])]_vars

\* C13 witness: a StopInterruption cleared the flag a StartInterruption had
\* set, and a frame received after it was sent or emitted by the push task.
C13_Witness ==
    /\ ~isInterrupted
    /\ \E i \in 1..Len(trace) : \E j \in (i + 1)..Len(trace) :
       \E k \in (j + 1)..Len(trace) :
          /\ trace[i].kind = "StartInterruption"
          /\ trace[j].kind = "StopInterruption"
          /\ SinkEffect(trace[k])
          /\ trace[k].id > trace[j].id

\* The camera, not live: still images and sprite sequences set as the cursor
\* while the camera loop cycles over it; the transport is started once.
InitCamera == InitParams(Params(FALSE, 100, 1, TRUE, FALSE, FALSE))

NextCamera ==
    \/ ProcessStart(DOWNSTREAM)
    \/ ProcessOther(Frame("Image", nextId))
    \/ \E len \in {0, MaxSprite} :
          ProcessOther(SpriteFrame([k \in 1..len |-> Image(nextId, k)], nextId))
    \/ \E t \in Threads :
          \/ SinkControl(t)
          \/ SinkImage(t)
          \/ SinkSprite(t)
          \/ CameraLoop(t)
          \/ CameraBody(t)
          \/ CameraDraw(t)

SpecCamera == InitCamera /\ [][NextCamera]_vars

\* The write_frame_to_camera calls made so far.
CamWrites == SelectSeq(trace, LAMBDA e : e.op = "write_frame_to_camera")

\* The number of images frame n set as the cursor.
CycleLen(n) ==
    IF received[n].kind = "Sprite" THEN Len(received[n].images) ELSE 1

\* The images written are, cursor after cursor in the order the cursors were
\* set, the images of the cursor in cyclic order from its first image.
CyclicOrder(w) ==
    \A i \in 1..Len(w) :
        IF i > 1 /\ w[i - 1].id = w[i].id
        THEN w[i].data = <<(w[i - 1].data[1] % CycleLen(w[i].id)) + 1>>
        ELSE /\ w[i].data = <<1>>
             /\ i > 1 => w[i - 1].id < w[i].id

\* The step is a write_frame_to_camera call of camera thread t.
CamWriteStep(t) ==
    /\ Len(trace') = Len(trace) + 1
    /\ trace'[Len(trace')].op = "write_frame_to_camera"
    /\ trace'[Len(trace')].by = t

\* The image is the one the cursor in place gave last.
FollowsCursor(img) ==
    /\ cameraImages.set
    /\ cameraImages.images # <<>>
    /\ cameraImages.images[IF cameraImages.next = 1
                           THEN Len(cameraImages.images)
                           ELSE cameraImages.next - 1] = img

\* The image is of an earlier cursor, and the cursor in place has given no
\* image yet.
TakenBeforeReplaced(img) ==
    /\ cameraImages.set
    /\ cameraImages.next = 1
    /\ \A k \in 1..Len(cameraImages.images) : cameraImages.images[k].id > img.id

\* C14 (as claimed): the images written follow the cursor in cyclic order
\* from its first image, and once a new image or sequence is set every write
\* is of the new cursor.
C14_CameraCycling ==
    [][/\ CyclicOrder(CamWrites')
       /\ \A t \in Threads :
             CamWriteStep(t) =>
                FollowsCursor(Image(trace'[Len(trace')].id,
                                    trace'[Len(trace')].data[1]))]_vars

\* C14 (amended): the images written follow each cursor in cyclic order from
\* its first image, cursor after cursor; a write is of the cursor in place,
\* or of the one image the camera loop had taken from the earlier cursor
\* before a cursor that has given no image yet replaced it.
C14_CameraCyclingAfterImageInHand ==
    [][/\ CyclicOrder(CamWrites')
       /\ \A t \in Threads :
             CamWriteStep(t) =>
                /\ cam[t].image = Image(trace'[Len(trace')].id,
                                        trace'[Len(trace')].data[1])
                /\ \/ FollowsCursor(cam[t].image)
                   \/ TakenBeforeReplaced(cam[t].image)]_vars

\* C14 witness: a sequence of two images was written past its wrap, then a
\* new cursor was set and its first image written.
C14_Witness ==
    \E i \in 1..(Len(CamWrites) - 3) :
        LET w == CamWrites
        IN  /\ w[i].id = w[i + 1].id /\ w[i + 1].id = w[i + 2].id
            /\ w[i].data = <<1>> /\ w[i + 1].data = <<2>> /\ w[i + 2].data = <<1>>
            /\ w[i + 3].id > w[i].id /\ w[i + 3].data = <<1>>

\* The camera, live: image frames (and sprite sequences, which the live loop
\* never reads) handed to the camera queue while the camera loop drains it;
\* the transport is started once.
InitLive == InitParams(Params(FALSE, 100, 1, TRUE, TRUE, FALSE))

NextLive ==
    \/ ProcessStart(DOWNSTREAM)
    \/ ProcessOther(Frame("Image", nextId))
    \/ ProcessOther(SpriteFrame([k \in 1..MaxSprite |-> Image(nextId, k)], nextId))
    \/ \E t \in Threads :
          \/ SinkControl(t)
          \/ SinkImage(t)
          \/ SinkSprite(t)
          \/ CameraLoop(t)
          \/ CameraBody(t)
          \/ CameraDraw(t)

SpecLive == InitLive /\ [][NextLive]_vars

\* The ids of the image frames among the frames of s.
ImageIds(s) == Ids(SelectSeq(s, LAMBDA f : f.kind = "Image"))

\* The frames the sink loops hold and have not handled yet.
SinkHeld ==
    LET held == SelectSeq([t \in 1..MaxStarts |-> sink[t]],
                          LAMBDA r : r.pc \in {"have", "handle"})
    IN  [i \in 1..Len(held) |-> held[i].frame]

\* The images the camera loops have taken and not written yet.
CameraHeld ==
    LET held == SelectSeq([t \in 1..MaxStarts |-> cam[t]],
                          LAMBDA r : r.pc = "draw")
    IN  [i \in 1..Len(held) |-> held[i].image]

\* C15: in live mode every image the sink loop has handed to the camera is in
\* one place only, written, taken by the camera loop or on the camera queue,
\* in the order the sink loop dequeued the image frames: the images written
\* are the first of them, each once, and only image frames are written.
C15_LiveCameraFifo ==
    /\ Ids(CamWrites) \o Ids(CameraHeld) \o Ids(cameraQueue)
          \o ImageIds(SinkHeld) \o ImageIds(sinkQueue)
       = ImageIds(received)
    /\ \A i \in 1..Len(CamWrites) : CamWrites[i].data = <<1>>

\* C15 witness: two images were written and a third is on the camera queue.
C15_Witness ==
    /\ Len(CamWrites) >= 2
    /\ cameraQueue # <<>>

\* Termination: Start, Cancel and End frames around text frames and a
\* StartInterruption, with the sink threads and the event loop (the calls
\* waiting on the stopped event) each scheduled fairly.
NextTerminal ==
    \/ ProcessStart(DOWNSTREAM)
    \/ ProcessCancel(DOWNSTREAM)
    \/ ProcessInterruption("StartInterruption", DOWNSTREAM)
    \/ \E k \in {"Text", "End"} : ProcessOther(Frame(k, nextId))
    \/ \E id \in waiting : ProcessFrameReturn(id)
    \/ \E t \in Threads :
          \/ SinkControl(t)
          \/ SinkForward(t)
          \/ _internal_push_frame(t)
          \/ SinkStop(t)

SinkStep(t) ==
    \/ SinkControl(t)
    \/ SinkForward(t)
    \/ _internal_push_frame(t)
    \/ SinkStop(t)

\* Each sink thread takes its next step, and the event loop resumes a call
\* waiting on the stopped event once it is set.
Fairness ==
    /\ \A t \in Threads : WF_vars(SinkStep(t))
    /\ WF_vars(\E id \in waiting : ProcessFrameReturn(id))

SpecFair == Init /\ [][NextTerminal]_vars /\ Fairness

\* C16: a process_frame call for a Cancel frame made while running returns;
\* while a call for an End frame waits and the transport is running, the
\* stopped event is eventually set, whatever is on the sink queue before the
\* End frame and whether or not the interrupted flag is set when it is
\* dequeued; the event stays set, and every call waiting on it then returns.
C16_TerminalFrameReturns ==
    /\ [][Handles({"Cancel"}) /\ running => Len(received') \in returned']_vars
    /\ (running /\ \E id \in waiting : received[id].kind = "End") ~> stoppedEvent
    /\ [][stoppedEvent => stoppedEvent' /\ waiting' \subseteq waiting]_vars
    /\ (stoppedEvent /\ waiting # {}) ~> (waiting = {})
    /\ [][\A id \in waiting : id \in waiting' \/ id \in returned']_vars

\* C16 witness: a call for an End frame returned though the End frame, behind
\* a text frame on the sink queue, was dequeued while interrupted and never
\* put on a push queue, with no Cancel frame to stop the transport.
C16_Witness ==
    \E id \in returned :
        /\ received[id].kind = "End"
        /\ \A n \in 1..Len(received) : received[n].kind # "Cancel"
        /\ \E n \in 1..(id - 1) : received[n].kind = "Text"
        /\ \E n \in 1..(id - 1) : received[n].kind = "StartInterruption"
        /\ \A g \in TaskIds : \A k \in 1..Len(puts[g]) : puts[g][k] # id

\* C17: a sink loop that reads the interrupted flag set for an End frame goes
\* straight to stop(), which leaves running false and the stopped event set,
\* and the End frame is put on no push queue, so it is never emitted; a loop
\* that reads the flag clear puts the End frame on the current push queue
\* and only then goes to stop(). Only that put adds to a push queue, and only
\* a frame put is emitted by a push task.
C17_EndDuringInterruption ==
    [][/\ \A t \in Threads :
             /\ ( sink[t].pc = "have" /\ sink'[t].pc # "have"
                  /\ sink[t].frame.kind = "End" )
                => /\ sink'[t].pc = IF isInterrupted THEN "stop" ELSE "handle"
                   /\ UNCHANGED <<puts, queues, trace, running, stoppedEvent>>
             /\ ( sink[t].pc = "handle" /\ sink'[t].pc # "handle"
                  /\ sink[t].frame.kind = "End" )
                => /\ sink'[t].pc = "forward"
                   /\ UNCHANGED <<puts, queues, running, stoppedEvent>>
             /\ ( sink[t].pc = "forward" /\ sink'[t].pc # "forward"
                  /\ sink[t].frame.kind = "End" )
                => /\ sink'[t].pc = "stop"
                   /\ puts' = [puts EXCEPT ![push_queue] = Append(@, sink[t].frame.id)]
                   /\ UNCHANGED <<running, stoppedEvent>>
             /\ ( sink[t].pc = "stop" /\ sink'[t].pc # "stop" )
                => ~running' /\ stoppedEvent'
       /\ puts' # puts =>
             \E t \in Threads : sink[t].pc = "forward" /\ sink'[t].pc # "forward"
       /\ \A i \in 1..Len(trace') :
             trace'[i].op = "push_frame" /\ trace'[i].by > 0
             => \E g \in TaskIds : \E k \in 1..Len(puts'[g]) :
                   puts'[g][k] = trace'[i].id]_vars

\* C17 witness: an End frame was dequeued while interrupted; the transport
\* has stopped, the stopped event is set, and the End frame is on no push
\* queue and was not emitted.
C17_Witness ==
    /\ isInterrupted /\ ~running /\ stoppedEvent
    /\ \A n \in 1..Len(received) : received[n].kind # "Cancel"
    /\ \E t \in Threads :
          /\ sink[t].frame.kind = "End"
          /\ sink[t].pc \in {"loop", "exited"}
          /\ \A g \in TaskIds : \A k \in 1..Len(puts[g]) :
                puts[g][k] # sink[t].frame.id
          /\ \A i \in 1..Len(trace) : trace[i].id # sink[t].frame.id

\* The bytes of the write_raw_audio_frames calls of sink thread t that
\* returned, in the order of the calls.
RECURSIVE BytesWritten(_, _)
BytesWritten(t, n) ==
    IF n = 0 THEN <<>>
    ELSE BytesWritten(t, n - 1) \o
         (IF trace[n].op = "write_raw_audio_frames" /\ trace[n].by = t /\ trace[n].ok
          THEN trace[n].data ELSE <<>>)

\* The audio sink thread t has dequeued and not buffered yet.
AudioInHand(t) ==
    IF sink[t].pc \in {"have", "handle"} THEN sink[t].frame.audio ELSE <<>>

\* C18: with audio output enabled, every write_raw_audio_frames call carries
\* exactly chunkSize bytes and an item gives at most one call; a step of the
\* audio branch leaves the bytes it wrote followed by the new buffer equal to
\* the old buffer followed by the item's payload, and the buffer loses bytes
\* in no other way than by the discard of an item read while interrupted; so,
\* while no StartInterruption has been handled, the bytes written followed by
\* the buffer are the payloads dequeued so far, in order.
C18_AudioByteConservation ==
    [][/\ \A i \in 1..Len(trace') :
             trace'[i].op = "write_raw_audio_frames"
             => Len(trace'[i].data) = audio_chunk_size
       /\ Len(trace') <= Len(trace) + 1
       /\ \A t \in Threads :
             /\ WriteStep(t) =>
                   /\ sink[t].pc = "handle" /\ sink'[t].pc # "handle"
                   /\ (IF trace'[Len(trace')].ok THEN trace'[Len(trace')].data ELSE <<>>)
                         \o sink'[t].buffer
                      = sink[t].buffer \o sink[t].frame.audio
             /\ ( sink'[t].buffer # sink[t].buffer /\ ~WriteStep(t) ) =>
                   \/ /\ sink[t].pc = "handle"
                      /\ sink'[t].buffer = sink[t].buffer \o sink[t].frame.audio
                      /\ Len(sink'[t].buffer) < audio_chunk_size
                   \/ /\ sink[t].pc = "have" /\ isInterrupted
                      /\ sink'[t].buffer = <<>>
             /\ ( /\ sink'[t].pc # "idle"
                  /\ \A n \in 1..Len(received') :
                        received'[n].kind # "StartInterruption" )
                => BytesWritten(t, Len(trace))' \o sink'[t].buffer
                      \o AudioInHand(t)' \o Concat(sinkQueue')
                   = [b \in 1..(nextByte' - 1) |-> b]]_vars

\* C18 witness: with no interruption, two chunks were written, one write
\* failed, and the buffer holds a remainder.
C18_Witness ==
    /\ \A n \in 1..Len(received) : received[n].kind # "StartInterruption"
    /\ \E t \in Threads :
          /\ Len(BytesWritten(t, Len(trace))) >= 2 * audio_chunk_size
          /\ WriteFailed(t)
          /\ sink[t].buffer # <<>>
          /\ Len(sink[t].buffer) < audio_chunk_size

\* C19: stop() while not running, called for a Cancel frame or by a sink loop
\* for an End frame, leaves running and the stopped event as they were; the
\* event is unset until the transport has been started, and is set only by a
\* stop() while running; a call for a Cancel frame made while not running
\* passes the frame to push_frame and returns at once only if the event is
\* already set, else it waits, and a waiting call returns only once the event
\* is set.
C19_StopWhileNotRunning ==
    [][/\ ( Handles({"Cancel"}) /\ ~running ) =>
             /\ UNCHANGED <<running, stoppedEvent>>
             /\ trace' = Append(trace, Call("push_frame", received'[Len(received')],
                                            DOWNSTREAM, 0, <<>>, TRUE))
             /\ IF stoppedEvent
                THEN Len(received') \in returned' /\ Len(received') \notin waiting'
                ELSE Len(received') \in waiting' /\ Len(received') \notin returned'
       /\ \A t \in Threads :
             ( sink[t].pc = "stop" /\ sink'[t].pc # "stop" /\ ~running )
             => UNCHANGED <<running, stoppedEvent>>
       /\ nStarts' = 0 => ~stoppedEvent'
       /\ stoppedEvent' # stoppedEvent => running /\ ~running' /\ stoppedEvent'
       /\ \A id \in waiting : id \in returned' => stoppedEvent]_vars

\* C19 witness: a call for a Cancel frame on a transport never started
\* waited, and returned after a Start frame and a later stop.
C19_Witness ==
    \E id \in returned :
        /\ received[id].kind = "Cancel"
        /\ \A n \in 1..(id - 1) : received[n].kind # "Start"
        /\ \E n \in (id + 1)..Len(received) : received[n].kind = "Start"
        /\ \E i \in 1..Len(trace) : trace[i].id = id /\ trace[i].by = 0

====
